---------------------------- MODULE Spec2Model ----------------------------
(***************************************************************************)
(* A model of the mcpc crawlers:                                           *)
(*   - engine/crawler_engine.py  DistributedCrawler: the recursive GitHub  *)
(*     tree walk (_fetch_page), its retry wrapper and crawl_site;          *)
(*   - engine/stats_crawler.py   StatsCrawler: crawl_site_stats,           *)
(*     crawl_all_sites and run.                                            *)
(* Strings are sequences of one-character strings, so that split, join,    *)
(* prefix tests and pathlib's parent are computed, not assumed.            *)
(***************************************************************************)
EXTENDS Naturals, Integers, Sequences, FiniteSets, TLC

(***************************************************************************)
(* Bounds of the model.                                                    *)
(***************************************************************************)
\* longest input string given to _normalize_path in SpecNorm
MaxLen == 5
\* largest error_handling.max_retries a site configuration carries
MaxRetries == 2
\* largest pagination.max_pages a site configuration carries
MaxPages == 2
\* most failing HTTP requests (listing fetches and file downloads) in a session
MaxFaults == 2
\* most listing requests answered with a malformed body in a session
MaxMalformed == 1
\* number of servers in the metadata file source_downloader reads
NumServers == 2
\* number of sites in the statistics configuration
NumSites == 2
\* largest max_retries a statistics site carries
MaxStatsRetries == 1
\* the crawls one run_forever starts at most
MaxRuns == 3
\* the signals one run_forever receives at most
MaxSignals == 2
\* the save_stats calls of one session at most
MaxSaves == 3

(***************************************************************************)
(* Python values.                                                          *)
(***************************************************************************)
\* Python's None, distinct from every string (strings hold one-character items)
None == <<"None">>

\* what _fetch_page returns: None (line 103) or the list of items (line 250)
ReturnNone == [none |-> TRUE, list |-> <<>>]

ReturnList(items) == [none |-> FALSE, list |-> items]

\* Python's truth value of a returned None or list
Truthy(value) == ~value.none /\ value.list # <<>>

\* the characters input strings of SpecNorm are drawn from
Alphabet == {"s", "r", "c", "/", "x"}

RECURSIVE StringsOfLen(_)
StringsOfLen(n) ==
    IF n = 0 THEN {<<>>}
    ELSE {<<ch>> \o s : ch \in Alphabet, s \in StringsOfLen(n - 1)}

Strings == UNION {StringsOfLen(n) : n \in 0..MaxLen}

\* str.split('/'): the segments between slashes; never an empty list
RECURSIVE SplitFrom(_, _)
SplitFrom(s, cur) ==
    IF s = <<>> THEN <<cur>>
    ELSE IF Head(s) = "/" THEN <<cur>> \o SplitFrom(Tail(s), <<>>)
    ELSE SplitFrom(Tail(s), Append(cur, Head(s)))

Split(s) == SplitFrom(s, <<>>)

\* '/'.join(parts)
RECURSIVE Join(_)
Join(parts) ==
    IF parts = <<>> THEN <<>>
    ELSE IF Len(parts) = 1 THEN parts[1]
    ELSE parts[1] \o <<"/">> \o Join(Tail(parts))

\* a variant that drops a first segment that merely starts with "src"
normalize_path_prefix(path) ==
    LET parts == Split(path) IN
    IF Len(parts[1]) >= 3 /\ SubSeq(parts[1], 1, 3) = <<"s", "r", "c">>
    THEN Join(Tail(parts))
    ELSE path

\* crawler_engine.DistributedCrawler._normalize_path
_normalize_path(path) ==
    LET parts == Split(path) IN
    IF parts[1] = <<"s", "r", "c">> THEN Join(Tail(parts)) ELSE path

\* the last item of a non-empty list: parts[-1]
Last(seq) == seq[Len(seq)]

\* s without its last item: seq[:-1]
Front(seq) == SubSeq(seq, 1, Len(seq) - 1)

\* the segments pathlib keeps of a relative path: no empty and no "." segment
RECURSIVE PureParts(_)
PureParts(parts) ==
    IF parts = <<>> THEN <<>>
    ELSE IF parts[1] = <<>> \/ parts[1] = <<".">> THEN PureParts(Tail(parts))
    ELSE <<parts[1]>> \o PureParts(Tail(parts))

\* str(Path(p).parent) of a relative path: "." when p has at most one segment
PathParentStr(p) ==
    LET parts == PureParts(Split(p)) IN
    IF Len(parts) <= 1 THEN <<".">> ELSE Join(Front(parts))

\* crawler_engine._fetch_page lines 138-140: the parent, with "." turned into ''
ParentPath(normalized_path) ==
    LET parent_path == PathParentStr(normalized_path) IN
    IF parent_path = <<".">> THEN <<>> ELSE parent_path

(***************************************************************************)
(* The repository behind the GitHub contents API.  A listing entry is what *)
(* _fetch_page keeps of one JSON object (lines 109-116); 'url' and         *)
(* 'download_url' are determined by 'path', so the path stands for both.   *)
(***************************************************************************)
S_src == <<"s", "r", "c">>
S_pkg == <<"p", "k", "g">>
S_sub == <<"s", "u", "b">>
S_a_py == <<"a", ".", "p", "y">>
S_t_py == <<"t", ".", "p", "y">>
S_x_py == <<"x", ".", "p", "y">>

\* dir/name
Sl(dir, name) == dir \o <<"/">> \o name

Entry(type, name, path, size) ==
    [type |-> type, name |-> name, path |-> path, size |-> size]

\* the largest repository: each directory's raw path and its listing, in the
\* order the API answers (by name); the listing of src/pkg/sub names its own
\* parent src/pkg again, a cycle
MaxListing ==
    (<<>> :> << Entry("dir", S_pkg, S_pkg, 0),
                Entry("dir", S_src, S_src, 0),
                Entry("file", S_t_py, S_t_py, 7) >>)
    @@ (S_pkg :> << Entry("file", S_x_py, Sl(S_pkg, S_x_py), 3) >>)
    @@ (S_src :> << Entry("file", S_a_py, Sl(S_src, S_a_py), 10),
                    Entry("dir", S_pkg, Sl(S_src, S_pkg), 0),
                    Entry("file", S_t_py, Sl(S_src, S_t_py), 4) >>)
    @@ (Sl(S_src, S_pkg) :>
            << Entry("dir", S_sub, Sl(Sl(S_src, S_pkg), S_sub), 0) >>)
    @@ (Sl(Sl(S_src, S_pkg), S_sub) :>
            << Entry("dir", S_pkg, Sl(S_src, S_pkg), 0) >>)

DirPaths == DOMAIN MaxListing

Range(seq) == {seq[k] : k \in 1..Len(seq)}

AllEntries == UNION {Range(MaxListing[d]) : d \in DirPaths}

AllPaths == {e.path : e \in AllEntries}

\* the raw path of the entry called name in the listing of directory d
Child(d, name) == IF d = <<>> THEN name ELSE Sl(d, name)

\* the directory whose listing holds raw path p as one of its own children
Container(p) ==
    CHOOSE d \in DirPaths :
        \E e \in Range(MaxListing[d]) : e.path = p /\ e.path = Child(d, e.name)

\* a repository holds a path only together with the directory that lists it
IsRepo(present) ==
    \A p \in present : Container(p) = <<>> \/ Container(p) \in present

Repos == {present \in SUBSET AllPaths : IsRepo(present)}

\* retry_delay's default, site_config.get('error_handling', {}).get('retry_delay', 5)
RetryDelay == 5

(***************************************************************************)
(* The state of one DistributedCrawler and of one crawl_site run.          *)
(***************************************************************************)
VARIABLES
    repo,           \* the raw paths the repository holds
    site_config,    \* url (the raw path after /contents/), max_retries,
                    \* max_pages, and whether the variable auth.token names is set
    processed_dirs, \* self.processed_dirs
    dir_parents,    \* self.dir_parents: a dict, as its items in insertion order
    log,            \* the records self.logger wrote to crawler.log
    stdout,         \* what was printed
    stack,          \* the active _fetch_page calls, the innermost last
    attempt,        \* _fetch_page_with_retry's loop variable
    calls,          \* _fetch_page calls made by the current _fetch_page_with_retry
    sleeps,         \* the time.sleep calls of the current _fetch_page_with_retry
    page_num,       \* crawl_site's page_num
    yielded,        \* the pages crawl_site yielded
    crawl_pc,       \* where crawl_site stands
    written,        \* local files: normalized path |-> raw path of the content
    records,        \* metadata files: <<directory, name>> |-> the record
    fetched,        \* the listing requests in order: <<url, answered with a
                    \* listing, kind of answer, made by a recursive call, headers>>
    visit_order,    \* the additions to processed_dirs in order: path and raw path
    retry_result,   \* how the last _fetch_page_with_retry call ended
    failures,       \* exceptions the current _fetch_page_with_retry caught
    faults          \* failed HTTP requests so far

walkVars == <<repo, site_config, processed_dirs, dir_parents, log, stdout, stack,
              attempt, calls, sleeps, page_num, yielded, crawl_pc, written,
              records, fetched, visit_order, retry_result, failures, faults>>

\* the decoded JSON list the API answers for a directory
Listing(url) ==
    SelectSeq(MaxListing[url], LAMBDA e : e.path \in repo)

\* dict item assignment d[k] = v, keeping insertion order
DictSet(d, k, v) ==
    IF \E j \in 1..Len(d) : d[j][1] = k
    THEN [j \in 1..Len(d) |-> IF d[j][1] = k THEN <<k, v>> ELSE d[j]]
    ELSE Append(d, <<k, v>>)

DictKeys(d) == {d[j][1] : j \in 1..Len(d)}

DictGet(d, k) == (CHOOSE j \in 1..Len(d) : d[j][1] = k)

\* a variant that lists the children newest first
Subdirectories_reversed(d, path) ==
    LET hits == SelectSeq(d, LAMBDA kv : kv[2] = path) IN
    [j \in 1..Len(hits) |-> hits[Len(hits) + 1 - j][1]]

\* [child for child, parent in self.dir_parents.items() if parent == path]
Subdirectories(d, path) ==
    LET hits == SelectSeq(d, LAMBDA kv : kv[2] = path) IN
    [j \in 1..Len(hits) |-> hits[j][1]]

RECURSIVE SumSizes(_)
SumSizes(files) ==
    IF files = <<>> THEN 0 ELSE Head(files).size + SumSizes(Tail(files))

FileInfo(name, path, size) == [name |-> name, path |-> path, size |-> size]

\* lines 188-196: the file entries of the listing the recursive call returned
ListedFiles(dir_items) ==
    IF ~Truthy(dir_items) THEN <<>>
    ELSE LET fs == SelectSeq(dir_items.list, LAMBDA e : e.type = "file") IN
         [j \in 1..Len(fs) |->
            FileInfo(fs[j].name, _normalize_path(fs[j].path), fs[j].size)]

\* lines 199-213: the record the caller writes for a subdirectory entry
DirMetadata(item, dir_items, parents) ==
    LET normalized_path == _normalize_path(item.path)
        parent_path == ParentPath(normalized_path)
        files == ListedFiles(dir_items)
    IN  [name |-> item.name,
         path |-> normalized_path,
         files |-> files,
         parent_directory |-> IF parent_path # <<>> THEN parent_path ELSE None,
         subdirectories |-> Subdirectories(parents, normalized_path),
         total_files |-> Len(files),
         total_size |-> SumSizes(files)]

\* lines 226-242: the record _fetch_page writes for the directory it walked
CurrentDirMetadata(current_path, current_dir_files, parents) ==
    LET normalized_current_path == _normalize_path(current_path) IN
    [name |-> Last(Split(current_path)),
     path |-> normalized_current_path,
     files |-> current_dir_files,
     parent_directory |-> IF normalized_current_path # <<>>
                          THEN PathParentStr(normalized_current_path) ELSE None,
     subdirectories |-> Subdirectories(parents, normalized_current_path),
     total_files |-> Len(current_dir_files),
     total_size |-> SumSizes(current_dir_files)]

\* the file a record is written to: <dir>/<name>.modelcontextprotocol.io.json
RecordKey(rec) == <<rec.path, rec.name>>

\* how often the metadata file with this key was written so far
Writes(recs, key) == IF key \in DOMAIN recs THEN recs[key].writes ELSE 0

\* json.dump to a path: a new file, or the old one overwritten
WriteRecord(recs, rec) ==
    (RecordKey(rec) :> ([writes |-> Writes(recs, RecordKey(rec)) + 1] @@ rec))
        @@ recs

\* lines 225, 244-247: written only when a file of this listing was saved
WriteCurrentDir(recs, frame, parents) ==
    IF frame.current_dir_files # <<>>
    THEN WriteRecord(recs, CurrentDirMetadata(frame.current_path,
                                              frame.current_dir_files, parents))
    ELSE recs

\* lines 81-84: the headers of the request
Headers == IF site_config.auth_token THEN {"Authorization"} ELSE {}

\* lines 86-89: one listing request and the kind of its answer
Request(url, kind) ==
    <<url, kind \in {"list", "empty"}, kind, Len(stack) > 1, Headers>>

\* the listing requests answered with a malformed body so far
Malformed ==
    Cardinality({k \in 1..Len(fetched) : fetched[k][3] \in {"not_json", "object"}})

\* a new _fetch_page call: lines 79-89, up to the listing request
Frame(url, current_path) ==
    [url |-> url, current_path |-> current_path, items |-> <<>>, i |-> 1,
     current_dir_files |-> <<>>, pc |-> "get"]

\* self._logger calls of _log_duplicate_directory (lines 281-285)
_log_duplicate_directory(path, normalized_path) ==
    Append(log, <<"duplicate", path, normalized_path>>)

(***************************************************************************)
(* crawl_site, _fetch_page_with_retry and _fetch_page, one action per      *)
(* stretch of code between two HTTP requests.                              *)
(***************************************************************************)
\* the directories a crawl can be started on
Roots(present) == {<<>>} \cup {d \in DirPaths : d \in present}

\* the state after __init__ (lines 10-23), for a repository among repos and
\* the variable site_config['auth']['token'] names set or not, as tokens says
WalkStart(repos, tokens) ==
    /\ repo \in repos
    /\ site_config \in [url : Roots(repo), max_retries : 0..MaxRetries,
                        max_pages : 1..MaxPages, auth_token : tokens]
    /\ processed_dirs = {}
    /\ dir_parents = <<>>
    /\ log = <<>>
    /\ stdout = {}
    /\ stack = <<>>
    /\ attempt = 0
    /\ calls = 0
    /\ sleeps = <<>>
    /\ page_num = 1
    /\ yielded = 0
    /\ crawl_pc = "page"
    /\ written = <<>>
    /\ records = <<>>
    /\ fetched = <<>>
    /\ visit_order = <<>>
    /\ retry_result = "none"
    /\ failures = 0
    /\ faults = 0

\* every repository, the token set
WalkInit == WalkStart(Repos, {TRUE})

\* the repositories of src, its file t.py and the root's t.py; the token set
\* or not
AuthRepos ==
    {present \in Repos : present \subseteq {S_src, Sl(S_src, S_t_py), S_t_py}}

AuthInit == WalkStart(AuthRepos, BOOLEAN)

Top == stack[Len(stack)]

Visit(normalized_path, raw) == [path |-> normalized_path, raw |-> raw]

SetTop(frame) == [stack EXCEPT ![Len(stack)] = frame]

\* a variant of the check that takes every path for new
AlwaysNew(normalized_path) == FALSE

\* line 143: normalized_path in self.processed_dirs

AlreadyProcessed(normalized_path) == normalized_path \in processed_dirs

\* crawl_site lines 28-30: the next page is asked of _fetch_page_with_retry
crawl_site_page ==
    /\ crawl_pc = "page"
    /\ stdout' = stdout \cup {<<"page", page_num>>}
    /\ attempt' = 0
    /\ calls' = 0
    /\ sleeps' = <<>>
    /\ retry_result' = "none"
    /\ failures' = 0
    /\ crawl_pc' = "attempt"
    /\ UNCHANGED <<repo, site_config, processed_dirs, dir_parents, log, stack,
                   page_num, yielded, written, records, fetched, visit_order,
                   faults>>

\* crawl_site lines 31-38 after _fetch_page_with_retry returned data
crawl_site_got(data) ==
    /\ retry_result' = "returned"
    /\ IF ~Truthy(data)
       THEN /\ stdout' = stdout \cup {<<"no_data">>}
            /\ crawl_pc' = "done"
            /\ UNCHANGED <<page_num, yielded>>
       ELSE /\ yielded' = yielded + 1
            /\ stdout' = stdout
            /\ IF page_num >= site_config.max_pages
               THEN crawl_pc' = "done" /\ page_num' = page_num
               ELSE crawl_pc' = "page" /\ page_num' = page_num + 1

\* _fetch_page_with_retry lines 69-71: one more attempt, or the loop has run out
_fetch_page_with_retry_attempt ==
    /\ crawl_pc = "attempt"
    /\ IF attempt < site_config.max_retries
       THEN /\ stack' = <<Frame(site_config.url, site_config.url)>>
            /\ calls' = calls + 1
            /\ crawl_pc' = "fetch"
            /\ UNCHANGED <<stdout, page_num, yielded, retry_result>>
       ELSE /\ crawl_site_got(ReturnNone)
            /\ UNCHANGED <<stack, calls>>
    /\ UNCHANGED <<repo, site_config, processed_dirs, dir_parents, log, attempt,
                   sleeps, written, records, fetched, visit_order, failures,
                   faults>>

\* a variant whose last failed attempt sleeps and retries instead of raising
Raised_off_by_one(out) ==
    /\ stack' = <<>>
    /\ failures' = failures + 1
    /\ stdout' = out \cup {<<"retry", attempt + 1>>}
    /\ sleeps' = Append(sleeps, RetryDelay)
    /\ attempt' = attempt + 1
    /\ crawl_pc' = "attempt"
    /\ UNCHANGED <<retry_result, page_num, yielded>>

\* an exception leaves every active _fetch_page (line 253) and reaches
\* _fetch_page_with_retry lines 72-77, then crawl_site lines 39-40
Raised(out) ==
    /\ stack' = <<>>
    /\ failures' = failures + 1
    /\ IF attempt < site_config.max_retries - 1
       THEN /\ stdout' = out \cup {<<"retry", attempt + 1>>}
            /\ sleeps' = Append(sleeps, RetryDelay)
            /\ attempt' = attempt + 1
            /\ crawl_pc' = "attempt"
            /\ UNCHANGED retry_result
       ELSE /\ retry_result' = "raised"
            /\ stdout' = out \cup {<<"crawl_ended">>}
            /\ crawl_pc' = "done"
            /\ UNCHANGED <<attempt, sleeps>>
    /\ UNCHANGED <<page_num, yielded>>

\* _fetch_page returns dir_items: to the _fetch_page that called it, which
\* goes on with lines 183-222, or through _fetch_page_with_retry to crawl_site
Returned(rest, dir_items, recs) ==
    IF rest # <<>>
    THEN LET caller == Last(rest)
             item == caller.items[caller.i]
         IN  /\ records' = WriteRecord(recs, DirMetadata(item, dir_items, dir_parents))
             /\ stack' = Append(Front(rest),
                                [caller EXCEPT !.i = @ + 1, !.pc = "loop"])
             /\ stdout' = stdout \cup {<<"saved_metadata", RecordKey(DirMetadata(item, dir_items, dir_parents))>>}
             /\ UNCHANGED <<page_num, yielded, crawl_pc, retry_result>>
    ELSE /\ records' = recs
         /\ stack' = <<>>
         /\ crawl_site_got(dir_items)

\* a variant that raises on an empty body instead of returning None
_fetch_page_get_ok_empty_raises ==
    /\ crawl_pc = "fetch"
    /\ Top.pc = "get"
    /\ LET data == Listing(Top.url) IN
       /\ fetched' = Append(fetched,
                    Request(Top.url, IF data = <<>> THEN "empty" ELSE "list"))
       /\ IF data = <<>>
          THEN /\ Raised(stdout)
               /\ UNCHANGED records
          ELSE /\ stack' = SetTop([Top EXCEPT !.items = data, !.i = 1,
                                               !.pc = "loop"])
               /\ UNCHANGED <<records, stdout, page_num, yielded, crawl_pc,
                              retry_result, attempt, sleeps, failures>>
    /\ UNCHANGED <<repo, site_config, processed_dirs, dir_parents, log,
                   calls, written, visit_order, faults>>

\* lines 86-130: the listing request is answered 200
_fetch_page_get_ok ==
    /\ crawl_pc = "fetch"
    /\ Top.pc = "get"
    /\ LET data == Listing(Top.url) IN
       /\ fetched' = Append(fetched,
                    Request(Top.url, IF data = <<>> THEN "empty" ELSE "list"))
       /\ IF data = <<>>
          THEN Returned(Front(stack), ReturnNone, records)
          ELSE /\ stack' = SetTop([Top EXCEPT !.items = data, !.i = 1,
                                               !.pc = "loop"])
               /\ UNCHANGED <<records, stdout, page_num, yielded, crawl_pc,
                              retry_result>>
    /\ UNCHANGED <<repo, site_config, processed_dirs, dir_parents, log, attempt,
                   calls, sleeps, written, visit_order, failures, faults>>

\* lines 86-98, 252-253: the listing request fails (network, 403, 4xx, 5xx)
_fetch_page_get_fail ==
    /\ crawl_pc = "fetch"
    /\ Top.pc = "get"
    /\ faults < MaxFaults
    /\ faults' = faults + 1
    /\ fetched' = Append(fetched, Request(Top.url, "error"))
    /\ Raised(stdout)
    /\ UNCHANGED <<repo, site_config, processed_dirs, dir_parents, log, calls,
                   written, records, visit_order>>

\* lines 86-100, 252-253: the answer is 200 with a body that is not JSON;
\* response.json() raises inside the try
_fetch_page_get_not_json ==
    /\ crawl_pc = "fetch"
    /\ Top.pc = "get"
    /\ faults < MaxFaults
    /\ Malformed < MaxMalformed
    /\ faults' = faults + 1
    /\ fetched' = Append(fetched, Request(Top.url, "not_json"))
    /\ Raised(stdout)
    /\ UNCHANGED <<repo, site_config, processed_dirs, dir_parents, log, calls,
                   written, records, visit_order>>

\* lines 86-130: the answer is 200 with a JSON object, or a list of values
\* that are not objects; the loop of lines 107-116 keeps no item
_fetch_page_get_object ==
    /\ crawl_pc = "fetch"
    /\ Top.pc = "get"
    /\ faults < MaxFaults
    /\ Malformed < MaxMalformed
    /\ faults' = faults + 1
    /\ fetched' = Append(fetched, Request(Top.url, "object"))
    /\ stack' = SetTop([Top EXCEPT !.items = <<>>, !.i = 1, !.pc = "loop"])
    /\ UNCHANGED <<repo, site_config, processed_dirs, dir_parents, log, stdout,
                   attempt, calls, sleeps, page_num, yielded, crawl_pc, written,
                   records, visit_order, retry_result, failures>>

InLoop == crawl_pc = "fetch" /\ Top.pc = "loop" /\ Top.i <= Len(Top.items)

\* a variant that, on a processed path, records the parent pointer once more
_fetch_page_item_skip_remark ==
    /\ InLoop
    /\ LET normalized_path == _normalize_path(Top.items[Top.i].path) IN
       /\ normalized_path \in processed_dirs
       /\ stdout' = stdout \cup {<<"skip", normalized_path>>}
       /\ dir_parents' = Append(dir_parents,
                                <<normalized_path, ParentPath(normalized_path)>>)
    /\ stack' = SetTop([Top EXCEPT !.i = @ + 1])
    /\ UNCHANGED <<repo, site_config, processed_dirs, log, attempt,
                   calls, sleeps, page_num, yielded, crawl_pc, written, records,
                   fetched, visit_order, retry_result, failures, faults>>

\* lines 132-145: an entry whose normalized path was processed before
_fetch_page_item_skip ==
    /\ InLoop
    /\ LET normalized_path == _normalize_path(Top.items[Top.i].path) IN
       /\ AlreadyProcessed(normalized_path)
       /\ stdout' = stdout \cup {<<"skip", normalized_path>>}
    /\ stack' = SetTop([Top EXCEPT !.i = @ + 1])
    /\ UNCHANGED <<repo, site_config, processed_dirs, dir_parents, log, attempt,
                   calls, sleeps, page_num, yielded, crawl_pc, written, records,
                   fetched, visit_order, retry_result, failures, faults>>

\* lines 132-168: a file entry, its content downloaded and saved
_fetch_page_item_file_ok ==
    /\ InLoop
    /\ LET item == Top.items[Top.i]
           normalized_path == _normalize_path(item.path)
       IN  /\ ~AlreadyProcessed(normalized_path)
           /\ item.type = "file"
           /\ processed_dirs' = processed_dirs \cup {normalized_path}
           /\ visit_order' = Append(visit_order, Visit(normalized_path, item.path))
           /\ written' = (normalized_path :> item.path) @@ written
           /\ stack' = SetTop([Top EXCEPT
                    !.i = @ + 1,
                    !.current_dir_files =
                        Append(@, FileInfo(item.name, normalized_path, item.size))])
    /\ UNCHANGED <<repo, site_config, dir_parents, log, stdout, attempt, calls,
                   sleeps, page_num, yielded, crawl_pc, records, fetched,
                   retry_result, failures, faults>>

\* lines 132-158, 169-170: a file entry whose download fails
_fetch_page_item_file_fail ==
    /\ InLoop
    /\ faults < MaxFaults
    /\ LET item == Top.items[Top.i]
           normalized_path == _normalize_path(item.path)
       IN  /\ ~AlreadyProcessed(normalized_path)
           /\ item.type = "file"
           /\ processed_dirs' = processed_dirs \cup {normalized_path}
           /\ visit_order' = Append(visit_order, Visit(normalized_path, item.path))
           /\ stdout' = stdout \cup {<<"file_failed", item.name>>}
    /\ faults' = faults + 1
    /\ stack' = SetTop([Top EXCEPT !.i = @ + 1])
    /\ UNCHANGED <<repo, site_config, dir_parents, log, attempt, calls, sleeps,
                   page_num, yielded, crawl_pc, written, records, fetched,
                   retry_result, failures>>

\* a variant that recurses without adding the directory to processed_dirs
_fetch_page_item_dir_unmarked ==
    /\ InLoop
    /\ LET item == Top.items[Top.i]
           normalized_path == _normalize_path(item.path)
           parent_path == ParentPath(normalized_path)
       IN  /\ ~AlreadyProcessed(normalized_path)
           /\ item.type = "dir"
           /\ visit_order' = Append(visit_order, Visit(normalized_path, item.path))
           /\ dir_parents' = DictSet(dir_parents, normalized_path, parent_path)
           /\ stack' = Append(SetTop([Top EXCEPT !.pc = "call"]),
                              Frame(item.path, item.path))
    /\ UNCHANGED <<repo, site_config, log, stdout, attempt, calls, sleeps,
                   page_num, yielded, crawl_pc, written, records, fetched,
                   retry_result, failures, faults, processed_dirs>>

\* lines 132-146, 171-181: a directory entry, up to the recursive _fetch_page
_fetch_page_item_dir ==
    /\ InLoop
    /\ LET item == Top.items[Top.i]
           normalized_path == _normalize_path(item.path)
           parent_path == ParentPath(normalized_path)
       IN  /\ ~AlreadyProcessed(normalized_path)
           /\ item.type = "dir"
           /\ processed_dirs' = processed_dirs \cup {normalized_path}
           /\ visit_order' = Append(visit_order, Visit(normalized_path, item.path))
           /\ dir_parents' = DictSet(dir_parents, normalized_path, parent_path)
           /\ stack' = Append(SetTop([Top EXCEPT !.pc = "call"]),
                              Frame(item.path, item.path))
    /\ UNCHANGED <<repo, site_config, log, stdout, attempt, calls, sleeps,
                   page_num, yielded, crawl_pc, written, records, fetched,
                   retry_result, failures, faults>>

\* lines 224-250: every entry was handled; the directory's own record, return
_fetch_page_return ==
    /\ crawl_pc = "fetch"
    /\ Top.pc = "loop"
    /\ Top.i > Len(Top.items)
    /\ Returned(Front(stack), ReturnList(Top.items),
                WriteCurrentDir(records, Top, dir_parents))
    /\ UNCHANGED <<repo, site_config, processed_dirs, dir_parents, log, attempt,
                   calls, sleeps, written, fetched, visit_order, failures,
                   faults>>

(***************************************************************************)
(* source_downloader.SourceDownloader: download_sources_for_data_source    *)
(* and download_github_repo, run after the crawl in the same environment.  *)
(***************************************************************************)
VARIABLES
    github_token,   \* self.github_token: "unset" before __init__, then "set" or "absent"
    dl_pc,          \* where download_sources_for_data_source stands
    dl_i,           \* the server the loop of line 138 is at
    dl_results,     \* per server handled: "skip", or what download_github_repo returned
    dl_requests,    \* the requests.get calls: <<server, headers>>
    dl_dirs,        \* the servers whose dest_dir was created
    dl_written,     \* the servers with a downloaded file on disk
    dl_counts       \* success_count, skip_count, error_count

dlVars == <<github_token, dl_pc, dl_i, dl_results, dl_requests, dl_dirs,
            dl_written, dl_counts>>

\* what server.get('github_url', '') can be: nothing, a GitHub repository URL,
\* a URL extract_github_repo_info gives (None, None) for
GithubUrls == {"", "github", "other"}

\* a server of the metadata file: its github_url, and whether its directory
\* already holds files
Servers == [github_url : GithubUrls, exists : BOOLEAN]

\* lines 144-157: the loop skips this server
Skipped(server) == server.github_url = "" \/ server.exists

\* what the contents API answers the first request of download_dir
DownloadAnswers == {"200", "404", "error"}

DownloadIdle ==
    /\ github_token = "unset"
    /\ dl_pc = "idle"
    /\ dl_i = 1
    /\ dl_results = <<>>
    /\ dl_requests = <<>>
    /\ dl_dirs = {}
    /\ dl_written = {}
    /\ dl_counts = [success |-> 0, skip |-> 0, error |-> 0]

\* the downloader waits for the crawl to end
DownloadInit ==
    /\ github_token = "unset"
    /\ dl_pc = "new"
    /\ dl_i = 1
    /\ dl_results = <<>>
    /\ dl_requests = <<>>
    /\ dl_dirs = {}
    /\ dl_written = {}
    /\ dl_counts = [success |-> 0, skip |-> 0, error |-> 0]

\* __init__ lines 16-20 and download_sources_for_data_source lines 120-136;
\* os.getenv reads the environment the crawl ran in
SourceDownloader_init ==
    /\ crawl_pc = "done"
    /\ dl_pc = "new"
    /\ github_token' = IF site_config.auth_token THEN "set" ELSE "absent"
    /\ dl_pc' = "loop"
    /\ UNCHANGED <<dl_i, dl_results, dl_requests, dl_dirs, dl_written, dl_counts>>

\* the loop goes on to the next server
NextServer(result, count) ==
    /\ dl_results' = Append(dl_results, result)
    /\ dl_counts' = [dl_counts EXCEPT ![count] = @ + 1]
    /\ dl_i' = dl_i + 1
    /\ UNCHANGED <<github_token, dl_pc>>

InDownloadLoop == dl_pc = "loop" /\ dl_i <= NumServers

\* lines 144-157: no GitHub URL, or the source is already there
download_sources_skip ==
    /\ InDownloadLoop
    /\ \E server \in Servers : Skipped(server)
    /\ NextServer("skip", "skip")
    /\ UNCHANGED <<dl_requests, dl_dirs, dl_written>>

\* a variant that asks the API also without a token
download_github_repo_ignoring_token ==
    /\ InDownloadLoop
    /\ \E server \in Servers : ~Skipped(server)
    /\ github_token = "absent"
    /\ dl_dirs' = dl_dirs \cup {dl_i}
    /\ dl_requests' = Append(dl_requests, <<dl_i, {"Authorization"}>>)
    /\ NextServer("False", "error")
    /\ UNCHANGED dl_written

\* lines 160-168, download_github_repo lines 47-49: no token, False
download_github_repo_no_token ==
    /\ InDownloadLoop
    /\ \E server \in Servers : ~Skipped(server)
    /\ github_token = "absent"
    /\ NextServer("False", "error")
    /\ UNCHANGED <<dl_requests, dl_dirs, dl_written>>

\* lines 160-168, download_github_repo lines 51-54: not a GitHub repository
download_github_repo_invalid_url ==
    /\ InDownloadLoop
    /\ \E server \in Servers : ~Skipped(server) /\ server.github_url = "other"
    /\ github_token = "set"
    /\ NextServer("False", "error")
    /\ UNCHANGED <<dl_requests, dl_dirs, dl_written>>

\* lines 160-168, download_github_repo lines 56-96: dest_dir is created and the
\* contents API is asked
download_github_repo_download ==
    /\ InDownloadLoop
    /\ \E server \in Servers : ~Skipped(server) /\ server.github_url = "github"
    /\ github_token = "set"
    /\ dl_dirs' = dl_dirs \cup {dl_i}
    /\ dl_requests' = Append(dl_requests, <<dl_i, {"Authorization"}>>)
    /\ \E answer \in DownloadAnswers :
          IF answer = "200"
          THEN /\ \E saved \in BOOLEAN :
                    dl_written' = IF saved THEN dl_written \cup {dl_i}
                                  ELSE dl_written
               /\ NextServer("True", "success")
          ELSE /\ dl_written' = dl_written
               /\ NextServer("False", "error")

\* lines 174-178: every server was handled; the counts are printed
download_sources_report ==
    /\ dl_pc = "loop"
    /\ dl_i > NumServers
    /\ dl_pc' = "done"
    /\ UNCHANGED <<github_token, dl_i, dl_results, dl_requests, dl_dirs,
                   dl_written, dl_counts>>

(***************************************************************************)
(* stats_crawler.StatsCrawler: run, crawl_all_sites and one crawl_site_stats*)
(* task per configured site, the tasks interleaving at their awaits.        *)
(***************************************************************************)
VARIABLES
    sites,          \* self.config['sites']: type and max_retries of each site
    session,        \* self.session: "none", "open" or "closed"
    tasks,          \* per site: where its crawl_site_stats stands, its loop
                    \* variable, the requests it made, the last answer, its result
    run_pc,         \* where run() stands
    stats           \* what run() returned

statsVars == <<sites, session, tasks, run_pc, stats>>

SiteTypes == {"http", "selenium"}

\* the server counts a page can show
Counts == {0, 42}

\* what one request of a plain HTTP site can be answered
HttpAnswers ==
    {"429", "200_count", "200_no_count", "200_cloudflare", "5xx", "404",
     "timeout", "exception"}

\* what running a selenium counter in the executor can end in
SeleniumAnswers == {"stats_success", "stats_error", "exception"}

SiteStats(i, status, server_count) ==
    [site_name |-> i, status |-> status, server_count |-> server_count]

\* a task that raised instead of returning
TaskException == [site_name |-> 0, status |-> "raised", server_count |-> 0]

StatsInit ==
    /\ sites \in [1..NumSites -> [type : SiteTypes,
                                  max_retries : 0..MaxStatsRetries]]
    /\ session = "none"
    /\ tasks = [i \in 1..NumSites |->
                  [pc |-> "created", attempt |-> 0, requests |-> 0,
                   last |-> "none", result |-> None]]
    /\ run_pc = "start"
    /\ stats = <<>>

StatsIdle ==
    /\ sites = <<>>
    /\ session = "none"
    /\ tasks = <<>>
    /\ run_pc = "idle"
    /\ stats = <<>>

\* run lines 672-677, crawl_all_sites lines 574-579: the tasks are gathered
run_start ==
    /\ run_pc = "start"
    /\ run_pc' = "gather"
    /\ tasks' = [i \in 1..NumSites |-> [tasks[i] EXCEPT !.pc = "start"]]
    /\ UNCHANGED <<sites, session, stats>>

\* crawl_site_stats lines 409-414, _get_session lines 83-86
crawl_site_stats_start(i) ==
    /\ run_pc = "gather"
    /\ tasks[i].pc = "start"
    /\ session' = "open"
    /\ tasks' = [tasks EXCEPT ![i].pc = "attempt"]
    /\ UNCHANGED <<sites, run_pc, stats>>

\* crawl_site_stats line 410: creating the session raises, outside the try
crawl_site_stats_no_session(i) ==
    /\ run_pc = "gather"
    /\ tasks[i].pc = "start"
    /\ session = "none"
    /\ tasks' = [tasks EXCEPT ![i].pc = "done", ![i].last = "raised",
                              ![i].result = TaskException]
    /\ UNCHANGED <<sites, session, run_pc, stats>>

\* the task sleeps retry_delay and goes round the loop again
Retry(i, answer) ==
    [tasks[i] EXCEPT !.attempt = @ + 1, !.requests = @ + 1, !.last = answer]

\* the task returns a SiteStats
Return(i, answer, status, server_count) ==
    [tasks[i] EXCEPT !.pc = "done", !.requests = @ + 1, !.last = answer,
                     !.result = SiteStats(i, status, server_count)]

\* crawl_site_stats lines 416-570: one turn of the loop, a plain HTTP site
HttpAttempt(i, answer, count) ==
    LET more == tasks[i].attempt < sites[i].max_retries IN
    CASE answer = "429" ->
            IF more THEN Retry(i, answer) ELSE Return(i, answer, "error", 0)
      [] answer = "200_cloudflare" ->
            IF more THEN Retry(i, answer) ELSE Return(i, answer, "error", 0)
      [] answer = "200_count" -> Return(i, answer, "success", count)
      [] answer = "200_no_count" -> Return(i, answer, "error", 0)
      [] answer = "5xx" ->
            IF more THEN Retry(i, answer) ELSE Return(i, answer, "error", 0)
      [] answer = "404" -> Return(i, answer, "error", 0)
      [] answer = "timeout" ->
            IF more THEN Retry(i, answer) ELSE Return(i, answer, "timeout", 0)
      [] answer = "exception" ->
            IF more THEN Retry(i, answer) ELSE Return(i, answer, "error", 0)

\* crawl_site_stats lines 418-433, 556-570: one turn of the loop, a site
\* counted with selenium in the executor
SeleniumAttempt(i, answer, count) ==
    LET more == tasks[i].attempt < sites[i].max_retries IN
    CASE answer = "stats_success" -> Return(i, answer, "success", count)
      [] answer = "stats_error" -> Return(i, answer, "error", 0)
      [] answer = "exception" ->
            IF more THEN Retry(i, answer) ELSE Return(i, answer, "error", 0)

crawl_site_stats_attempt(i) ==
    /\ run_pc = "gather"
    /\ tasks[i].pc = "attempt"
    /\ \E count \in Counts :
          IF sites[i].type = "http"
          THEN \E answer \in HttpAnswers :
                  tasks' = [tasks EXCEPT ![i] = HttpAttempt(i, answer, count)]
          ELSE \E answer \in SeleniumAnswers :
                  tasks' = [tasks EXCEPT ![i] = SeleniumAttempt(i, answer, count)]
    /\ UNCHANGED <<sites, session, run_pc, stats>>

\* a variant that leaves out the sites whose task raised
crawl_all_sites_dropping(results) ==
    LET kept == SelectSeq(results, LAMBDA r : r.status # "raised") IN kept

\* crawl_all_sites lines 581-598: one SiteStats per gathered result
crawl_all_sites(results) ==
    [i \in 1..Len(results) |->
        IF results[i].status = "raised" THEN SiteStats(i, "error", 0)
        ELSE results[i]]

AllDone == \A i \in 1..NumSites : tasks[i].pc = "done"

Results == [i \in 1..NumSites |-> tasks[i].result]

\* run lines 696-698: the finally clause
CloseSession == IF session = "open" THEN "closed" ELSE session

\* run lines 677-691, 696-698: the results are saved and returned
run_return ==
    /\ run_pc = "gather"
    /\ AllDone
    /\ stats' = crawl_all_sites(Results)
    /\ session' = CloseSession
    /\ run_pc' = "returned"
    /\ UNCHANGED <<sites, tasks>>

\* run lines 678-686, 693-698: writing the results or the report fails
run_raise ==
    /\ run_pc = "gather"
    /\ AllDone
    /\ session' = CloseSession
    /\ run_pc' = "raised"
    /\ UNCHANGED <<sites, tasks, stats>>

(***************************************************************************)
(* SpecNorm: _normalize_path applied to every string up to MaxLen.          *)
(***************************************************************************)
VARIABLES norm_in, norm_out, norm_pc, dist_norm_out

normVars == <<norm_in, norm_out, norm_pc, dist_norm_out>>

NormInit ==
    /\ norm_in \in Strings
    /\ norm_out = None
    /\ norm_pc = "call"
    /\ dist_norm_out = None

NormIdle ==
    /\ norm_in = <<>>
    /\ norm_out = None
    /\ norm_pc = "idle"
    /\ dist_norm_out = None

NormApply ==
    /\ norm_pc = "call"
    /\ norm_out' = _normalize_path(norm_in)
    /\ norm_pc' = "returned"
    /\ UNCHANGED <<norm_in, dist_norm_out>>

(***************************************************************************)
(* distributed_crawler.DistributedCrawler.crawl_site: a one-level crawl.    *)
(* Every item of the page gets its metadata file, and the listing of the  *)
(* item's directory is fetched through _fetch_page_with_retry.            *)
(***************************************************************************)
VARIABLES
    dist_config,    \* max_retries and max_pages of site_config
    dist_page,      \* the list the site's url answers
    dist_pc,        \* where crawl_site stands
    dist_page_num,  \* page_num
    dist_i,         \* the place of the current item in data
    dist_dir_data,  \* dir_data, the listing of the current item's directory
    dist_j,         \* the place of the current file in dir_data
    dist_attempt,   \* the loop variable of the running _fetch_page_with_retry
    dist_sleeps,    \* the time.sleep calls so far
    dist_stdout,    \* what was printed
    dist_metadata,  \* the metadata files written: directory and name
    dist_saved,     \* the files written: directory and name
    dist_yielded,   \* the pages yielded
    dist_faults     \* failed requests so far

distVars == <<dist_config, dist_page, dist_pc, dist_page_num, dist_i,
              dist_dir_data, dist_j, dist_attempt, dist_sleeps, dist_stdout,
              dist_metadata, dist_saved, dist_yielded, dist_faults>>

\* distributed_crawler.DistributedCrawler._normalize_path
distributed_normalize_path(path) ==
    IF Len(path) >= 4 /\ SubSeq(path, 1, 4) = <<"s", "r", "c", "/">>
    THEN SubSeq(path, 5, Len(path))
    ELSE path

\* the items a page can hold: 'path' empty or not, with or without 'url'
DistItems ==
    [name : {S_pkg, S_sub}, path : {<<>>, S_sub, Sl(S_src, S_pkg)},
     url : BOOLEAN]

\* the pages: one or two different items
DistPages ==
    {<<a>> : a \in DistItems}
    \cup {<<a, b>> : a \in {c \in DistItems : c.name = S_pkg},
                     b \in {c \in DistItems : c.name = S_sub}}

\* the listings a directory request is answered with: nothing, or files
DistListings ==
    {<<>>,
     <<Entry("file", S_a_py, S_a_py, 10)>>,
     <<Entry("file", S_a_py, S_a_py, 10), Entry("file", S_t_py, S_t_py, 4)>>}

DistInit ==
    /\ dist_config \in [max_retries : 0..MaxRetries, max_pages : 1..MaxPages]
    /\ dist_page \in DistPages
    /\ dist_pc = "page"
    /\ dist_page_num = 1
    /\ dist_i = 1
    /\ dist_dir_data = <<>>
    /\ dist_j = 1
    /\ dist_attempt = 0
    /\ dist_sleeps = 0
    /\ dist_stdout = {}
    /\ dist_metadata = {}
    /\ dist_saved = {}
    /\ dist_yielded = 0
    /\ dist_faults = 0

DistIdle ==
    /\ dist_config = [max_retries |-> 0, max_pages |-> 1]
    /\ dist_page = <<>>
    /\ dist_pc = "idle"
    /\ dist_page_num = 1
    /\ dist_i = 1
    /\ dist_dir_data = <<>>
    /\ dist_j = 1
    /\ dist_attempt = 0
    /\ dist_sleeps = 0
    /\ dist_stdout = {}
    /\ dist_metadata = {}
    /\ dist_saved = {}
    /\ dist_yielded = 0
    /\ dist_faults = 0

\* the item of the page crawl_site is at
DistItem == dist_page[dist_i]

\* the server directory of an item (lines 67-70)
ServerDir(item) == distributed_normalize_path(item.path)

\* lines 52-54: the next page is asked of _fetch_page_with_retry
distributed_crawl_site_page ==
    /\ dist_pc = "page"
    /\ dist_stdout' = dist_stdout \cup {<<"page", dist_page_num>>}
    /\ dist_attempt' = 0
    /\ dist_pc' = "fetch"
    /\ UNCHANGED <<dist_config, dist_page, dist_page_num, dist_i,
                   dist_dir_data, dist_j, dist_sleeps, dist_metadata,
                   dist_saved, dist_yielded, dist_faults>>

\* lines 55-57: no data, the loop of pages ends
NoData ==
    /\ dist_stdout' = dist_stdout \cup {<<"no_data">>}
    /\ dist_pc' = "done"
    /\ UNCHANGED <<dist_i, dist_attempt, dist_sleeps, dist_faults>>

\* lines 143, 153-181: the page request is answered with the list
distributed_fetch_page_ok ==
    /\ dist_pc = "fetch"
    /\ dist_attempt < dist_config.max_retries
    /\ dist_pc' = "items"
    /\ dist_i' = 1
    /\ UNCHANGED <<dist_config, dist_page, dist_page_num, dist_dir_data,
                   dist_j, dist_attempt, dist_sleeps, dist_stdout,
                   dist_metadata, dist_saved, dist_yielded, dist_faults>>

\* lines 143, 174-177: the page request is answered 200 with an empty body,
\* or (line 143) max_retries is 0 and the loop of attempts makes no request;
\* _fetch_page_with_retry returns None
distributed_fetch_page_none ==
    /\ dist_pc = "fetch"
    /\ NoData
    /\ UNCHANGED <<dist_config, dist_page, dist_page_num, dist_dir_data,
                   dist_j, dist_metadata, dist_saved, dist_yielded>>

\* lines 146-151, 115-117: the page request fails; after the last attempt
\* the exception leaves crawl_site
distributed_fetch_page_fail ==
    /\ dist_pc = "fetch"
    /\ dist_attempt < dist_config.max_retries
    /\ dist_faults < MaxFaults
    /\ dist_faults' = dist_faults + 1
    /\ IF dist_attempt < dist_config.max_retries - 1
       THEN /\ dist_stdout' = dist_stdout \cup {<<"retry", dist_attempt + 1>>}
            /\ dist_sleeps' = dist_sleeps + 1
            /\ dist_attempt' = dist_attempt + 1
            /\ dist_pc' = "fetch"
       ELSE /\ dist_stdout' = dist_stdout \cup {<<"crawl_error">>}
            /\ dist_pc' = "raised"
            /\ UNCHANGED <<dist_sleeps, dist_attempt>>
    /\ UNCHANGED <<dist_config, dist_page, dist_page_num, dist_i,
                   dist_dir_data, dist_j, dist_metadata, dist_saved,
                   dist_yielded>>

InItems == dist_pc = "items" /\ dist_i <= Len(dist_page)

\* lines 60-64: an item without a path is passed over
distributed_item_no_path ==
    /\ InItems
    /\ DistItem.path = <<>>
    /\ dist_i' = dist_i + 1
    /\ UNCHANGED <<dist_config, dist_page, dist_pc, dist_page_num,
                   dist_dir_data, dist_j, dist_attempt, dist_sleeps,
                   dist_stdout, dist_metadata, dist_saved, dist_yielded,
                   dist_faults>>

\* lines 66-93: the item's metadata file is written; with a 'url' the
\* listing of its directory is asked of _fetch_page_with_retry
distributed_item_metadata ==
    /\ InItems
    /\ DistItem.path # <<>>
    /\ dist_metadata' = dist_metadata \cup {<<ServerDir(DistItem), DistItem.name>>}
    /\ IF DistItem.url
       THEN /\ dist_pc' = "dir_fetch"
            /\ dist_attempt' = 0
            /\ UNCHANGED dist_i
       ELSE /\ dist_i' = dist_i + 1
            /\ UNCHANGED <<dist_pc, dist_attempt>>
    /\ UNCHANGED <<dist_config, dist_page, dist_page_num, dist_dir_data,
                   dist_j, dist_sleeps, dist_stdout, dist_saved,
                   dist_yielded, dist_faults>>

\* lines 93-95: the directory's listing is returned: None (max_retries 0 or an
\* empty body) or an empty list ends the item, a list of files is gone through
distributed_dir_fetch_ok(dir_data) ==
    /\ dist_pc = "dir_fetch"
    /\ dist_attempt < dist_config.max_retries \/ dir_data = <<>>
    /\ IF dir_data # <<>>
       THEN /\ dist_pc' = "files"
            /\ dist_dir_data' = dir_data
            /\ dist_j' = 1
            /\ UNCHANGED dist_i
       ELSE /\ dist_pc' = "items"
            /\ dist_i' = dist_i + 1
            /\ UNCHANGED <<dist_dir_data, dist_j>>
    /\ UNCHANGED <<dist_config, dist_page, dist_page_num, dist_attempt,
                   dist_sleeps, dist_stdout, dist_metadata, dist_saved,
                   dist_yielded, dist_faults>>

\* a variant whose exhausted directory request leaves crawl_site
distributed_dir_fetch_fail_raising ==
    /\ dist_pc = "dir_fetch"
    /\ dist_attempt < dist_config.max_retries
    /\ dist_faults < MaxFaults
    /\ dist_faults' = dist_faults + 1
    /\ IF dist_attempt < dist_config.max_retries - 1
       THEN /\ dist_stdout' = dist_stdout \cup {<<"retry", dist_attempt + 1>>}
            /\ dist_sleeps' = dist_sleeps + 1
            /\ dist_attempt' = dist_attempt + 1
            /\ UNCHANGED <<dist_pc, dist_i>>
       ELSE /\ dist_stdout' = dist_stdout \cup {<<"crawl_error">>}
            /\ dist_pc' = "raised"
            /\ UNCHANGED <<dist_sleeps, dist_attempt, dist_i>>
    /\ UNCHANGED <<dist_config, dist_page, dist_page_num, dist_dir_data,
                   dist_j, dist_metadata, dist_saved, dist_yielded>>

\* lines 93, 146-151, 105-107: the directory request fails; after the last
\* attempt the exception is caught at the item and the next item follows
distributed_dir_fetch_fail ==
    /\ dist_pc = "dir_fetch"
    /\ dist_attempt < dist_config.max_retries
    /\ dist_faults < MaxFaults
    /\ dist_faults' = dist_faults + 1
    /\ IF dist_attempt < dist_config.max_retries - 1
       THEN /\ dist_stdout' = dist_stdout \cup {<<"retry", dist_attempt + 1>>}
            /\ dist_sleeps' = dist_sleeps + 1
            /\ dist_attempt' = dist_attempt + 1
            /\ UNCHANGED <<dist_pc, dist_i>>
       ELSE /\ dist_stdout' = dist_stdout
                    \cup {<<"dir_error", dist_page_num, dist_i>>}
            /\ dist_pc' = "items"
            /\ dist_i' = dist_i + 1
            /\ UNCHANGED <<dist_sleeps, dist_attempt>>
    /\ UNCHANGED <<dist_config, dist_page, dist_page_num, dist_dir_data,
                   dist_j, dist_metadata, dist_saved, dist_yielded>>

\* after the file at dist_j: the next file, or the next item
NextFile ==
    IF dist_j < Len(dist_dir_data)
    THEN dist_j' = dist_j + 1 /\ UNCHANGED <<dist_pc, dist_i>>
    ELSE dist_pc' = "items" /\ dist_i' = dist_i + 1 /\ UNCHANGED dist_j

\* lines 96-104: a file of the directory is requested; the content of a 200
\* answer is written, another status is passed over
distributed_file(status) ==
    /\ dist_pc = "files"
    /\ dist_saved' = IF status = "200"
                     THEN dist_saved \cup {<<ServerDir(DistItem),
                                            dist_dir_data[dist_j].name>>}
                     ELSE dist_saved
    /\ NextFile
    /\ UNCHANGED <<dist_config, dist_page, dist_page_num, dist_dir_data,
                   dist_attempt, dist_sleeps, dist_stdout, dist_metadata,
                   dist_yielded, dist_faults>>

\* lines 100, 105-107: the file request raises; the exception is caught at
\* the item, the rest of the directory is left and the next item follows
distributed_file_raise ==
    /\ dist_pc = "files"
    /\ dist_faults < MaxFaults
    /\ dist_faults' = dist_faults + 1
    /\ dist_stdout' = dist_stdout \cup {<<"dir_error", dist_page_num, dist_i>>}
    /\ dist_pc' = "items"
    /\ dist_i' = dist_i + 1
    /\ UNCHANGED <<dist_config, dist_page, dist_page_num, dist_dir_data,
                   dist_j, dist_attempt, dist_sleeps, dist_metadata,
                   dist_saved, dist_yielded>>

\* lines 109-115: the page is yielded; the next page, or the end
distributed_crawl_site_yield ==
    /\ dist_pc = "items"
    /\ dist_i > Len(dist_page)
    /\ dist_yielded' = dist_yielded + 1
    /\ IF dist_page_num >= dist_config.max_pages
       THEN dist_pc' = "done" /\ UNCHANGED dist_page_num
       ELSE dist_pc' = "page" /\ dist_page_num' = dist_page_num + 1
    /\ UNCHANGED <<dist_config, dist_page, dist_i, dist_dir_data, dist_j,
                   dist_attempt, dist_sleeps, dist_stdout, dist_metadata,
                   dist_saved, dist_faults>>

\* distributed_crawler's _normalize_path applied to the same string
DistNormApply ==
    /\ norm_pc # "idle"
    /\ dist_norm_out = None
    /\ dist_norm_out' = distributed_normalize_path(norm_in)
    /\ UNCHANGED <<norm_in, norm_out, norm_pc>>

(***************************************************************************)
(* stats_scheduler.StatsScheduler: run_forever and the signal handler,     *)
(* which runs between any two steps once it is installed.                  *)
(***************************************************************************)
VARIABLES
    running,        \* self.running
    sched_pc,       \* where run_forever stands
    next_run,       \* how often _schedule_next_run set self.next_run
    crawls,         \* how each _run_single_crawl started so far ended
    signals,        \* the signals handled so far
    stop_requested  \* _signal_handler has set running to False

schedVars == <<running, sched_pc, next_run, crawls, signals, stop_requested>>

\* the state after __init__ (lines 24-29)
SchedInit ==
    /\ running = FALSE
    /\ sched_pc = "start"
    /\ next_run = 0
    /\ crawls = <<>>
    /\ signals = 0
    /\ stop_requested = FALSE

SchedIdle ==
    /\ running = FALSE
    /\ sched_pc = "idle"
    /\ next_run = 0
    /\ crawls = <<>>
    /\ signals = 0
    /\ stop_requested = FALSE

\* lines 125-126: logging and the signal handlers are set up
run_forever_setup ==
    /\ sched_pc = "start"
    /\ sched_pc' = "installed"
    /\ UNCHANGED <<running, next_run, crawls, signals, stop_requested>>

\* lines 128-135: the configuration is loaded, then self.running = True
run_forever_running ==
    /\ sched_pc = "installed"
    /\ running' = TRUE
    /\ sched_pc' = "while"
    /\ UNCHANGED <<next_run, crawls, signals, stop_requested>>

\* lines 138-139, 101-110: while self.running, and _schedule_next_run
run_forever_while ==
    /\ sched_pc = "while"
    /\ IF running
       THEN /\ next_run < MaxRuns
            /\ next_run' = next_run + 1
            /\ sched_pc' = "wait"
       ELSE /\ sched_pc' = "finally"
            /\ UNCHANGED next_run
    /\ UNCHANGED <<running, crawls, signals, stop_requested>>

\* lines 140, 112-121: the sleep until next_run is over
_wait_until_next_run ==
    /\ sched_pc = "wait"
    /\ sched_pc' = "check"
    /\ UNCHANGED <<running, next_run, crawls, signals, stop_requested>>

\* lines 140, 148-151: the wait is cancelled or raises
run_forever_except ==
    /\ sched_pc = "wait"
    /\ sched_pc' = "finally"
    /\ UNCHANGED <<running, next_run, crawls, signals, stop_requested>>

\* lines 142-146: if not self.running: break; else the crawl is started
run_forever_check ==
    /\ sched_pc = "check"
    /\ sched_pc' = IF running THEN "crawl" ELSE "finally"
    /\ UNCHANGED <<running, next_run, crawls, signals, stop_requested>>

\* lines 77-99: the crawl returns the stats, or None after an exception
_run_single_crawl(result) ==
    /\ sched_pc = "crawl"
    /\ crawls' = Append(crawls, result)
    /\ sched_pc' = "while"
    /\ UNCHANGED <<running, next_run, signals, stop_requested>>

\* lines 152-154: finally
run_forever_finally ==
    /\ sched_pc = "finally"
    /\ running' = FALSE
    /\ sched_pc' = "stopped"
    /\ UNCHANGED <<next_run, crawls, signals, stop_requested>>

\* lines 67-70: SIGINT or SIGTERM is handled, any time after line 126
_signal_handler ==
    /\ sched_pc \in {"installed", "while", "wait", "check", "crawl", "finally"}
    /\ signals < MaxSignals
    /\ signals' = signals + 1
    /\ running' = FALSE
    /\ stop_requested' = TRUE
    /\ UNCHANGED <<sched_pc, next_run, crawls>>

(***************************************************************************)
(* stats_crawler.StatsCrawler.save_stats and the files it writes.          *)
(***************************************************************************)
VARIABLES
    history,        \* stats_history.json: the list of records
    latest,         \* latest_stats.json: the stats written, empty when absent
    saves,          \* the save_stats calls so far
    hist_initial    \* the records the history file held at the start

histVars == <<history, latest, saves, hist_initial>>

\* the number of records save_stats keeps (lines 629-630)
HistoryLimit == 100

\* one record of the history: the time of the call and its stats
HistoryRecord(timestamp, site_stats) ==
    [timestamp |-> timestamp, stats |-> site_stats]

\* the file is absent (read as no record) or holds the records of earlier
\* sessions, written at the times -n + 1 .. 0
HistInit ==
    /\ hist_initial \in 0..HistoryLimit
    /\ history = [k \in 1..hist_initial |->
                    HistoryRecord(k - hist_initial, 0)]
    /\ latest = <<>>
    /\ saves = 0

HistIdle ==
    /\ hist_initial = 0
    /\ history = <<>>
    /\ latest = <<>>
    /\ saves = 0

\* a variant that keeps the oldest records
KeepLatest_oldest(records_list) ==
    IF Len(records_list) > HistoryLimit
    THEN SubSeq(records_list, 1, HistoryLimit)
    ELSE records_list

\* lines 629-630: history[-100:] when longer than 100
KeepLatest(records_list) ==
    IF Len(records_list) > HistoryLimit
    THEN SubSeq(records_list, Len(records_list) - HistoryLimit + 1,
                Len(records_list))
    ELSE records_list

\* lines 600-635: the stats are written, the history is read, extended by one
\* record, cut and written back
save_stats(site_stats) ==
    /\ saves < MaxSaves
    /\ saves' = saves + 1
    /\ latest' = <<site_stats>>
    /\ history' = KeepLatest(Append(history,
                                    HistoryRecord(saves + 1, site_stats)))
    /\ UNCHANGED hist_initial

\* the variables of the parts added to the crawlers
extVars == <<distVars, schedVars, histVars>>

ExtIdle == DistIdle /\ SchedIdle /\ HistIdle

WalkIdle ==
    /\ repo = {}
    /\ site_config = [url |-> <<>>, max_retries |-> 0, max_pages |-> 1,
                      auth_token |-> FALSE]
    /\ processed_dirs = {}
    /\ dir_parents = <<>>
    /\ log = <<>>
    /\ stdout = {}
    /\ stack = <<>>
    /\ attempt = 0
    /\ calls = 0
    /\ sleeps = <<>>
    /\ page_num = 1
    /\ yielded = 0
    /\ crawl_pc = "idle"
    /\ written = <<>>
    /\ records = <<>>
    /\ fetched = <<>>
    /\ visit_order = <<>>
    /\ retry_result = "none"
    /\ failures = 0
    /\ faults = 0

vars == <<walkVars, normVars, statsVars, dlVars, extVars>>

\* one crawl_site run of crawler_engine.DistributedCrawler
Init == WalkInit /\ NormIdle /\ StatsIdle /\ DownloadIdle /\ ExtIdle

Next ==
    \/ crawl_site_page /\ UNCHANGED <<normVars, statsVars, dlVars, extVars>>
    \/ _fetch_page_with_retry_attempt /\ UNCHANGED <<normVars, statsVars, dlVars, extVars>>
    \/ _fetch_page_get_ok /\ UNCHANGED <<normVars, statsVars, dlVars, extVars>>
    \/ _fetch_page_get_fail /\ UNCHANGED <<normVars, statsVars, dlVars, extVars>>
    \/ _fetch_page_get_not_json /\ UNCHANGED <<normVars, statsVars, dlVars, extVars>>
    \/ _fetch_page_get_object /\ UNCHANGED <<normVars, statsVars, dlVars, extVars>>
    \/ _fetch_page_item_skip /\ UNCHANGED <<normVars, statsVars, dlVars, extVars>>
    \/ _fetch_page_item_file_ok /\ UNCHANGED <<normVars, statsVars, dlVars, extVars>>
    \/ _fetch_page_item_file_fail /\ UNCHANGED <<normVars, statsVars, dlVars, extVars>>
    \/ _fetch_page_item_dir /\ UNCHANGED <<normVars, statsVars, dlVars, extVars>>
    \/ _fetch_page_return /\ UNCHANGED <<normVars, statsVars, dlVars, extVars>>

Spec == Init /\ [][Next]_vars

\* one crawl_site run and then one download_sources_for_data_source, the
\* token set or not
InitAuth == AuthInit /\ NormIdle /\ StatsIdle /\ DownloadInit /\ ExtIdle

NextAuth ==
    \/ Next
    \/ SourceDownloader_init /\ UNCHANGED <<walkVars, normVars, statsVars, extVars>>
    \/ download_sources_skip /\ UNCHANGED <<walkVars, normVars, statsVars, extVars>>
    \/ download_github_repo_no_token /\ UNCHANGED <<walkVars, normVars, statsVars, extVars>>
    \/ download_github_repo_invalid_url /\ UNCHANGED <<walkVars, normVars, statsVars, extVars>>
    \/ download_github_repo_download /\ UNCHANGED <<walkVars, normVars, statsVars, extVars>>
    \/ download_sources_report /\ UNCHANGED <<walkVars, normVars, statsVars, extVars>>

SpecAuth == InitAuth /\ [][NextAuth]_vars

\* _normalize_path applied to one string
InitNorm == NormInit /\ WalkIdle /\ StatsIdle /\ DownloadIdle /\ ExtIdle

NextNorm ==
    \/ NormApply /\ UNCHANGED <<walkVars, statsVars, dlVars, extVars>>
    \/ DistNormApply /\ UNCHANGED <<walkVars, statsVars, dlVars, extVars>>

SpecNorm == InitNorm /\ [][NextNorm]_vars

\* one StatsCrawler.run()
InitStats == StatsInit /\ WalkIdle /\ NormIdle /\ DownloadIdle /\ ExtIdle

NextStats ==
    \/ run_start /\ UNCHANGED <<walkVars, normVars, dlVars, extVars>>
    \/ \E i \in 1..NumSites :
          crawl_site_stats_start(i) /\ UNCHANGED <<walkVars, normVars, dlVars, extVars>>
    \/ \E i \in 1..NumSites :
          crawl_site_stats_no_session(i) /\ UNCHANGED <<walkVars, normVars, dlVars, extVars>>
    \/ \E i \in 1..NumSites :
          crawl_site_stats_attempt(i) /\ UNCHANGED <<walkVars, normVars, dlVars, extVars>>
    \/ run_return /\ UNCHANGED <<walkVars, normVars, dlVars, extVars>>
    \/ run_raise /\ UNCHANGED <<walkVars, normVars, dlVars, extVars>>

SpecStats == InitStats /\ [][NextStats]_vars

\* one crawl_site run of distributed_crawler.DistributedCrawler
InitDist ==
    DistInit /\ WalkIdle /\ NormIdle /\ StatsIdle /\ DownloadIdle
    /\ SchedIdle /\ HistIdle

NextDist ==
    \/ distributed_crawl_site_page /\ UNCHANGED <<walkVars, normVars, statsVars, dlVars, schedVars, histVars>>
    \/ distributed_fetch_page_ok /\ UNCHANGED <<walkVars, normVars, statsVars, dlVars, schedVars, histVars>>
    \/ distributed_fetch_page_none /\ UNCHANGED <<walkVars, normVars, statsVars, dlVars, schedVars, histVars>>
    \/ distributed_fetch_page_fail /\ UNCHANGED <<walkVars, normVars, statsVars, dlVars, schedVars, histVars>>
    \/ distributed_item_no_path /\ UNCHANGED <<walkVars, normVars, statsVars, dlVars, schedVars, histVars>>
    \/ distributed_item_metadata /\ UNCHANGED <<walkVars, normVars, statsVars, dlVars, schedVars, histVars>>
    \/ \E dir_data \in DistListings :
          distributed_dir_fetch_ok(dir_data) /\ UNCHANGED <<walkVars, normVars, statsVars, dlVars, schedVars, histVars>>
    \/ distributed_dir_fetch_fail /\ UNCHANGED <<walkVars, normVars, statsVars, dlVars, schedVars, histVars>>
    \/ \E status \in {"200", "404"} :
          distributed_file(status) /\ UNCHANGED <<walkVars, normVars, statsVars, dlVars, schedVars, histVars>>
    \/ distributed_file_raise /\ UNCHANGED <<walkVars, normVars, statsVars, dlVars, schedVars, histVars>>
    \/ distributed_crawl_site_yield /\ UNCHANGED <<walkVars, normVars, statsVars, dlVars, schedVars, histVars>>

SpecDist == InitDist /\ [][NextDist]_vars

\* one run_forever of StatsScheduler and the signals it receives
InitSched ==
    SchedInit /\ WalkIdle /\ NormIdle /\ StatsIdle /\ DownloadIdle /\ DistIdle
    /\ HistIdle

NextSched ==
    \/ run_forever_setup /\ UNCHANGED <<walkVars, normVars, statsVars, dlVars, distVars, histVars>>
    \/ run_forever_running /\ UNCHANGED <<walkVars, normVars, statsVars, dlVars, distVars, histVars>>
    \/ run_forever_while /\ UNCHANGED <<walkVars, normVars, statsVars, dlVars, distVars, histVars>>
    \/ _wait_until_next_run /\ UNCHANGED <<walkVars, normVars, statsVars, dlVars, distVars, histVars>>
    \/ run_forever_except /\ UNCHANGED <<walkVars, normVars, statsVars, dlVars, distVars, histVars>>
    \/ run_forever_check /\ UNCHANGED <<walkVars, normVars, statsVars, dlVars, distVars, histVars>>
    \/ \E result \in {"stats", "None"} :
          _run_single_crawl(result) /\ UNCHANGED <<walkVars, normVars, statsVars, dlVars, distVars, histVars>>
    \/ run_forever_finally /\ UNCHANGED <<walkVars, normVars, statsVars, dlVars, distVars, histVars>>
    \/ _signal_handler /\ UNCHANGED <<walkVars, normVars, statsVars, dlVars, distVars, histVars>>

SpecSched == InitSched /\ [][NextSched]_vars

\* a session of save_stats calls on one output directory
InitHist ==
    HistInit /\ WalkIdle /\ NormIdle /\ StatsIdle /\ DownloadIdle /\ DistIdle
    /\ SchedIdle

NextHist ==
    \/ \E site_stats \in Counts :
          save_stats(site_stats) /\ UNCHANGED <<walkVars, normVars, statsVars, dlVars, distVars, schedVars>>

SpecHist == InitHist /\ [][NextHist]_vars

(***************************************************************************)
(* The claims.                                                             *)
(***************************************************************************)
\* the listing entry the innermost _fetch_page is about to handle
CurrentItem == Top.items[Top.i]

CurrentPath == _normalize_path(CurrentItem.path)

\* the directories whose listing request was answered 200 / failed
Listed == {r[1] : r \in {q \in Range(fetched) : q[2]}}

FailedListings ==
    {r[1] : r \in {q \in Range(fetched) : q[3] \in {"error", "not_json"}}}

\* the metadata file of the directory with raw path d
RecordKeyOf(d) == <<_normalize_path(d), Last(Split(d))>>

FileEntries(d) == SelectSeq(Listing(d), LAMBDA e : e.type = "file")

NoRepeats(seq) == \A k, m \in 1..Len(seq) : seq[k] = seq[m] => k = m

\* C1: when every _fetch_page call of a _fetch_page_with_retry with
\* max_retries = n >= 1 failed, there were exactly n calls and n - 1 sleeps of
\* retry_delay seconds, one after each failure but the last, and the last
\* failure was raised to crawl_site; no call is made beyond the n-th.
C1_RetryBound ==
    /\ calls <= site_config.max_retries
    /\ retry_result # "raised" => Len(sleeps) = failures
    /\ (crawl_pc = "done" /\ site_config.max_retries >= 1 /\ failures = calls)
        => /\ calls = site_config.max_retries
           /\ Len(sleeps) = site_config.max_retries - 1
           /\ \A k \in 1..Len(sleeps) : sleeps[k] = RetryDelay
           /\ retry_result = "raised"

C1_Witness ==
    /\ crawl_pc = "done"
    /\ site_config.max_retries = 2
    /\ failures = 2
    /\ calls = 2
    /\ Len(sleeps) = 1
    /\ retry_result = "raised"

\* an entry whose normalized path was first reached under another raw path
Collision ==
    /\ InLoop
    /\ \E k \in 1..Len(visit_order) :
          visit_order[k].path = CurrentPath /\ visit_order[k].raw # CurrentItem.path

C3_ParentBeforeChild ==
    \A j \in 1..Len(dir_parents) :
        dir_parents[j][2] # <<>> =>
            \E a, b \in 1..Len(visit_order) :
                /\ a < b
                /\ visit_order[a].path = dir_parents[j][2]
                /\ visit_order[b].path = dir_parents[j][1]

\* C4: at the end of the walk the record on disk of every directory whose
\* listing was fetched counts exactly the file entries of that listing:
\* total_files = N and total_size = s1 + ... + sN.
C4_Rollup ==
    crawl_pc = "done" =>
        \A d \in Listed :
            RecordKeyOf(d) \in DOMAIN records =>
                /\ records[RecordKeyOf(d)].total_files = Len(FileEntries(d))
                /\ records[RecordKeyOf(d)].total_size = SumSizes(FileEntries(d))

\* C5: Scenario A (the root lists only the directory src, src lists only the
\* file src/a.py of size 10): the file is saved as a.py under the output root
\* and the record of the root path '' has total_files = 1, total_size = 10
\* and no subdirectories.
C5_ScenarioA ==
    (/\ repo = {S_src, Sl(S_src, S_a_py)}
     /\ site_config.url = <<>>
     /\ site_config.max_retries >= 1
     /\ faults = 0
     /\ crawl_pc = "done")
    => /\ S_a_py \in DOMAIN written
       /\ written[S_a_py] = Sl(S_src, S_a_py)
       /\ \E key \in DOMAIN records : records[key].path = <<>>
       /\ \A key \in DOMAIN records :
            records[key].path = <<>> =>
                /\ records[key].total_files = 1
                /\ records[key].total_size = 10
                /\ records[key].subdirectories = <<>>

\* C6: Scenario C, when the listing request of a subdirectory failed, at the
\* end of the run the directory that lists it has its record, the failed
\* subdirectory is not among that record's subdirectories, every sibling
\* entry was processed and the failure was reported.
C6_ScenarioC ==
    crawl_pc = "done" =>
        \A d \in FailedListings \ {site_config.url} :
            /\ RecordKeyOf(Container(d)) \in DOMAIN records
            /\ \A k \in 1..Len(records[RecordKeyOf(Container(d))].subdirectories) :
                 records[RecordKeyOf(Container(d))].subdirectories[k]
                    # _normalize_path(d)
            /\ \A e \in Range(Listing(Container(d))) :
                 _normalize_path(e.path) \in processed_dirs
            /\ \E ev \in stdout : ev[1] \in {"retry", "crawl_ended"}

StartsWithSrcSlash(str) ==
    Len(str) >= 4 /\ SubSeq(str, 1, 4) = <<"s", "r", "c", "/">>

\* C7: _normalize_path returns a string for every string: '' for "src", the
\* rest after the prefix "src/" for a string that starts with it, and the
\* string itself otherwise.
C7_NormalizeTotal ==
    norm_pc = "returned" =>
        /\ norm_out \in Seq(Alphabet)
        /\ norm_out = IF norm_in = S_src THEN <<>>
                      ELSE IF StartsWithSrcSlash(norm_in)
                           THEN SubSeq(norm_in, 5, Len(norm_in))
                           ELSE norm_in

C7_Witness ==
    /\ norm_pc = "returned"
    /\ norm_in = <<"s", "r", "c", "/", "x">>
    /\ norm_out = <<"x">>

\* no path is listed twice among the children of a parent
NoDupChildren(parents) ==
    \A j \in 1..Len(parents) :
        NoRepeats(Subdirectories(parents, parents[j][2]))

\* C8: meeting a normalized path that is already in processed_dirs leaves it
\* there and changes neither processed_dirs nor dir_parents, and no path is
\* ever listed twice among the children of a parent.
C8_IdempotentVisit ==
    [][/\ (InLoop /\ CurrentPath \in processed_dirs) =>
            /\ CurrentPath \in processed_dirs'
            /\ processed_dirs' = processed_dirs
            /\ dir_parents' = dir_parents
       /\ NoDupChildren(dir_parents')
      ]_vars

C8_Witness ==
    /\ \E ev \in stdout : ev[1] = "skip" /\ ev[2] \in DictKeys(dir_parents)
    /\ Len(dir_parents) >= 2

\* C9: at the end of a run that no exception cut short, every directory whose
\* listing was fetched and held entries has a metadata record, and a failed
\* request left a trace.
C9_EveryDirectoryRecorded ==
    (crawl_pc = "done" /\ retry_result = "returned") =>
        /\ \A d \in Listed :
             Listing(d) # <<>> => RecordKeyOf(d) \in DOMAIN records
        /\ faults > 0 =>
             \E ev \in stdout : ev[1] \in {"retry", "crawl_ended", "file_failed"}

\* the answers after which a site counts as failed
FailedAnswers ==
    {"429", "200_no_count", "200_cloudflare", "5xx", "404", "timeout",
     "exception", "stats_error", "raised"}

\* C10: when run() returns, its list holds one SiteStats per configured site
\* in configuration order; a site whose task raised, timed out or found no
\* count has status error or timeout and server_count 0; the session is not
\* left open when run() has ended, returning or raising.
C10_OneStatPerSite ==
    /\ run_pc \in {"returned", "raised"} => session # "open"
    /\ run_pc = "returned" =>
        /\ Len(stats) = NumSites
        /\ \A i \in 1..NumSites :
            /\ stats[i].site_name = i
            /\ stats[i].status \in {"success", "error", "timeout"}
            /\ tasks[i].last \in FailedAnswers =>
                 /\ stats[i].status \in {"error", "timeout"}
                 /\ stats[i].server_count = 0
            /\ tasks[i].last = "timeout" => stats[i].status = "timeout"

C10_Witness ==
    /\ run_pc = "returned"
    /\ session = "closed"
    /\ tasks[1].last = "raised"
    /\ tasks[2].last = "timeout"
    /\ stats[1] = SiteStats(1, "error", 0)
    /\ stats[2] = SiteStats(2, "timeout", 0)

\* C11: without the token, download_github_repo returns False for every server
\* it is called for, having asked nothing of the network and created no
\* directory and no file; download_sources_for_data_source still handles
\* every server; and the walker's listing requests carry no Authorization
\* header, the walk ending as it does with the token: raised only after a
\* failed request.
C11_MissingToken ==
    /\ github_token = "absent" =>
        /\ dl_requests = <<>>
        /\ dl_dirs = {}
        /\ dl_written = {}
        /\ \A k \in 1..Len(dl_results) : dl_results[k] \in {"skip", "False"}
        /\ dl_counts.success = 0
    /\ dl_pc = "done" => Len(dl_results) = NumServers
    /\ ~site_config.auth_token =>
        /\ \A k \in 1..Len(fetched) : "Authorization" \notin fetched[k][5]
        /\ (crawl_pc = "done" /\ faults = 0 /\ site_config.max_retries >= 1)
              => retry_result = "returned"

C11_Witness ==
    /\ github_token = "absent"
    /\ dl_pc = "done"
    /\ dl_results = <<"False", "False">>
    /\ dl_counts.error = 2
    /\ Len(fetched) >= 2
    /\ yielded >= 1
    /\ DOMAIN written # {}

\* the listing requests made by recursive _fetch_page calls, in order
RecursiveFetches == SelectSeq(fetched, LAMBDA q : q[4])

\* the normalized paths of the repository's entries
NormalizedPaths == {_normalize_path(p) : p \in repo}

\* the longest listing
LongestListing == CHOOSE n \in 0..Cardinality(AllEntries) :
    /\ \A d \in DirPaths : Len(MaxListing[d]) <= n
    /\ \E d \in DirPaths : Len(MaxListing[d]) = n

\* the steps an active _fetch_page call can still take by itself
FrameSteps(frame) ==
    IF frame.pc = "get" THEN LongestListing + 2
    ELSE (Len(frame.items) + 1 - frame.i) + 1

RECURSIVE StackSteps(_)
StackSteps(frames) ==
    IF frames = <<>> THEN 0
    ELSE FrameSteps(Head(frames)) + StackSteps(Tail(frames))

\* the normalized paths a listing can name
AllNormalizedPaths == {_normalize_path(p) : p \in AllPaths}

\* what one _fetch_page attempt can still do: the steps of its active calls,
\* and a new call with all its steps for every path not yet processed
WalkSteps ==
    StackSteps(stack)
        + (LongestListing + 3)
            * (Cardinality(AllNormalizedPaths) - Cardinality(processed_dirs))

AttemptWeight ==
    (LongestListing + 3) * (Cardinality(AllNormalizedPaths) + 1) + 2

PageWeight == (MaxRetries + 1) * AttemptWeight + 1

\* a natural number that bounds the steps crawl_site can still take
Variant ==
    CASE crawl_pc = "done" -> 0
      [] crawl_pc = "page" ->
            (site_config.max_pages - page_num) * PageWeight + PageWeight - 1
      [] crawl_pc = "attempt" ->
            (site_config.max_pages - page_num) * PageWeight
                + (site_config.max_retries - attempt) * AttemptWeight
                + AttemptWeight - 1
      [] crawl_pc = "fetch" ->
            (site_config.max_pages - page_num) * PageWeight
                + (site_config.max_retries - attempt) * AttemptWeight
                + WalkSteps

\* C12: the crawl ends, also on a repository whose listings name an ancestor
\* again: every step lowers a natural number, and the walk never stands
\* still before its end; no two listing requests of recursive calls are for
\* the same normalized path, so there are at most as many as normalized paths.
C12_Terminates ==
    [][/\ Variant' \in Nat
       /\ Variant' < Variant
       /\ crawl_pc' = "fetch" =>
            /\ stack' # <<>>
            /\ stack'[Len(stack')].pc \in {"get", "loop"}
       /\ (Len(fetched') > Len(fetched) /\ Last(fetched')[4]) =>
            /\ \A j \in 1..Len(RecursiveFetches) :
                 _normalize_path(RecursiveFetches[j][1])
                    # _normalize_path(Last(fetched')[1])
            /\ Len(RecursiveFetches) + 1 <= Cardinality(NormalizedPaths)
      ]_vars

C12_Witness ==
    /\ crawl_pc = "done"
    /\ site_config.url = Sl(S_src, S_pkg)
    /\ \E j \in 1..Len(fetched) :
          fetched[j][1] = Sl(S_src, S_pkg) /\ fetched[j][4] /\ fetched[j][2]
    /\ <<"skip", Sl(S_pkg, S_sub)>> \in stdout
    /\ retry_result = "returned"

\* the raw path names a directory entry
IsDirEntry(raw) == \E e \in AllEntries : e.path = raw /\ e.type = "dir"

\* the place of the first addition of path to processed_dirs, 0 when never
VisitedAt(path) ==
    IF \E j \in 1..Len(visit_order) : visit_order[j].path = path
    THEN CHOOSE j \in 1..Len(visit_order) : visit_order[j].path = path
    ELSE 0

\* C13: in every state every visited directory is a key of dir_parents
\* exactly once, recorded before the recursive request for it was made, and
\* its recorded parent is empty or was visited before it.
C13_ParentChildIndex ==
    /\ \A j \in 1..Len(visit_order) :
          IsDirEntry(visit_order[j].raw) =>
            /\ Cardinality({m \in 1..Len(dir_parents) :
                                dir_parents[m][1] = visit_order[j].path}) = 1
            /\ LET parent == dir_parents[DictGet(dir_parents,
                                                 visit_order[j].path)][2]
               IN  parent # <<>> =>
                     /\ VisitedAt(parent) > 0
                     /\ VisitedAt(parent) < j
    /\ \A j \in 1..Len(RecursiveFetches) :
          _normalize_path(RecursiveFetches[j][1]) \in DictKeys(dir_parents)

\* C14: processed_dirs only grows, and when the walk has ended every path in
\* it is materialized: its file was written, or its directory record was
\* persisted.
C14_VisitedMaterialized ==
    [][/\ processed_dirs \subseteq processed_dirs'
       /\ crawl_pc' = "done" =>
            \A j \in 1..Len(visit_order') :
                IF IsDirEntry(visit_order'[j].raw)
                THEN \E key \in DOMAIN records' :
                        records'[key].path = visit_order'[j].path
                ELSE visit_order'[j].path \in DOMAIN written'
      ]_vars

\* the first page's _fetch_page_with_retry caught an exception of a nested
\* listing request and a later attempt returned the root listing; no file
\* download failed and every body answered was a listing
RetriedAfterPartialFailure ==
    /\ crawl_pc = "done"
    /\ page_num = 1
    /\ yielded = 1
    /\ retry_result = "returned"
    /\ failures >= 1
    /\ \E k \in 1..Len(fetched) :
          fetched[k][4] /\ fetched[k][3] \in {"error", "not_json"}
    /\ \A k \in 1..Len(fetched) : fetched[k][3] # "object"
    /\ \A ev \in stdout : ev[1] # "file_failed"

\* C15: when an attempt of the root fetch failed after entries were marked
\* visited and a later attempt returned, at the end of the session every file
\* entry of every listing reached is written and every directory entry has a
\* persisted record.
C15_RetryLosesNothing ==
    RetriedAfterPartialFailure =>
        \A d \in Listed :
            \A e \in Range(Listing(d)) :
                IF e.type = "file"
                THEN _normalize_path(e.path) \in DOMAIN written
                ELSE \E key \in DOMAIN records :
                        records[key].path = _normalize_path(e.path)

\* the places of the recursive listing requests for url
RecursiveRequests(url) ==
    {k \in 1..Len(fetched) : fetched[k][4] /\ fetched[k][1] = url}

\* C16: a subdirectory's listing request goes through the retry wrapper: when
\* it fails and max_retries allows another attempt, the same listing is
\* requested again, until it is answered or was requested max_retries times.
C16_SubdirectoryRetried ==
    crawl_pc = "done" =>
        \A k \in 1..Len(fetched) :
            (fetched[k][4] /\ fetched[k][3] = "error") =>
                \/ Cardinality(RecursiveRequests(fetched[k][1]))
                      >= site_config.max_retries
                \/ \E m \in RecursiveRequests(fetched[k][1]) :
                      m > k /\ fetched[m][2]

\* the step made a listing request that was answered with a malformed body
MalformedAnswer ==
    /\ Len(fetched') = Len(fetched) + 1
    /\ Last(fetched')[3] \in {"not_json", "object"}

\* C17: a listing request answered with a body that is not JSON or has an
\* unexpected shape ends its _fetch_page_with_retry at once with the error
\* raised: no sleep, no further attempt, no further _fetch_page call.
C17_MalformedNotRetried ==
    [][MalformedAnswer =>
            /\ stack' = <<>>
            /\ crawl_pc' = "done"
            /\ retry_result' = "raised"
            /\ UNCHANGED <<attempt, sleeps, calls>>
      ]_vars

\* the step made a listing request answered 200 with a JSON object, or with
\* a list whose items are not objects
ObjectAnswer ==
    /\ Len(fetched') = Len(fetched) + 1
    /\ Last(fetched')[3] = "object"

\* C18: a listing request answered 200 with a payload that is not a list of
\* objects raises out of every active _fetch_page, and at no time does the
\* directory so answered have a record of zero files.
C18_NonListRaises ==
    [][/\ ObjectAnswer => stack' = <<>> /\ failures' = failures + 1
       /\ \A k \in 1..Len(fetched') :
            (fetched'[k][3] = "object"
                /\ RecordKeyOf(fetched'[k][1]) \in DOMAIN records')
            => records'[RecordKeyOf(fetched'[k][1])].total_files # 0
      ]_vars

\* the step made a listing request answered 200 with an empty body
EmptyAnswer ==
    /\ Len(fetched') = Len(fetched) + 1
    /\ Last(fetched')[3] = "empty"

\* C19: a listing request answered 200 with an empty body is no failure: no
\* exception is counted, nothing sleeps, no attempt follows, and when the
\* request was crawl_site's own, _fetch_page_with_retry returns the empty
\* result and crawl_site ends with the no-data notice and nothing yielded.
C19_EmptyIsSentinel ==
    [][EmptyAnswer =>
            /\ UNCHANGED <<failures, sleeps, attempt, calls, faults>>
            /\ \A ev \in stdout' \ stdout : ev[1] \notin {"retry", "crawl_ended"}
            /\ retry_result' # "raised"
            /\ IF Len(stack) = 1
               THEN /\ stack' = <<>>
                    /\ crawl_pc' = "done"
                    /\ retry_result' = "returned"
                    /\ <<"no_data">> \in stdout'
                    /\ yielded' = yielded
               ELSE /\ Len(stack') = Len(stack) - 1
                    /\ crawl_pc' = "fetch"
      ]_vars

C19_Witness ==
    /\ crawl_pc = "done"
    /\ fetched # <<>>
    /\ Last(fetched)[3] = "empty"
    /\ ~Last(fetched)[4]
    /\ calls = 1
    /\ failures = 0
    /\ sleeps = <<>>
    /\ retry_result = "returned"
    /\ <<"no_data">> \in stdout
    /\ yielded = 0

\* C20: within one session the metadata file of every directory is written
\* exactly once.
C20_RecordWrittenOnce ==
    \A key \in DOMAIN records : records[key].writes = 1

\* the raw paths of the directories a record with this key was written for:
\* a directory entry that was visited, or the directory the walk started at
RecordedDirs(key) ==
    {visit_order[j].raw : j \in {m \in 1..Len(visit_order) :
        /\ IsDirEntry(visit_order[m].raw)
        /\ RecordKeyOf(visit_order[m].raw) = key}}
    \cup {d \in {site_config.url} : RecordKeyOf(d) = key}

\* the parent_directory the record of the directory with raw path d is to
\* carry: None at the root and at top level, else the normalized path of the
\* directory that lists d
ExpectedParent(d) ==
    IF d = <<>> \/ _normalize_path(Container(d)) = <<>>
    THEN None
    ELSE _normalize_path(Container(d))

\* C21: every record on disk has parent_directory None when its directory
\* has no parent, never the empty string, else the normalized path of the
\* directory that lists it, and its subdirectories are the children
\* dir_parents holds for its path.
C21_ParentDirectory ==
    \A key \in DOMAIN records :
        /\ records[key].parent_directory # <<>>
        /\ \A d \in RecordedDirs(key) :
              records[key].parent_directory = ExpectedParent(d)
        /\ records[key].subdirectories
              = Subdirectories(dir_parents, records[key].path)

\* following the parent pointers of d from path for at most n steps ends at
\* the empty root, or at a directory d holds no pointer for
RECURSIVE ReachesRoot(_, _, _)
ReachesRoot(d, path, n) ==
    \/ path = <<>>
    \/ path \notin DictKeys(d)
    \/ /\ n > 0
       /\ ReachesRoot(d, d[DictGet(d, path)][2], n - 1)

\* C22: dir_parents is acyclic: no directory is its own parent, no record
\* lists its own path among its subdirectories, and the parent pointers of
\* every recorded directory lead to the empty root.
C22_Acyclic ==
    /\ \A j \in 1..Len(dir_parents) : dir_parents[j][1] # dir_parents[j][2]
    /\ \A key \in DOMAIN records :
          records[key].path \notin Range(records[key].subdirectories)
    /\ \A j \in 1..Len(dir_parents) :
          ReachesRoot(dir_parents, dir_parents[j][2], Len(dir_parents))

\* the listing entry whose content is saved at the normalized path
SavedEntry(path) == CHOOSE e \in AllEntries : e.path = written[path]

\* C23: every entry in the files list of a record on disk is a file whose
\* content was downloaded and written in this session, with that file's name
\* and size; a file whose download failed or that was skipped is not listed,
\* and total_files and total_size count the listed files only.
C23_FilesWereSaved ==
    \A key \in DOMAIN records :
        /\ \A k \in 1..Len(records[key].files) :
              /\ records[key].files[k].path \in DOMAIN written
              /\ records[key].files[k].name
                    = SavedEntry(records[key].files[k].path).name
              /\ records[key].files[k].size
                    = SavedEntry(records[key].files[k].path).size
        /\ records[key].total_files = Len(records[key].files)
        /\ records[key].total_size = SumSizes(records[key].files)

\* the file entries of the listing of d that were taken up and not saved:
\* their download failed
FailedFiles(d) ==
    {e \in Range(Listing(d)) :
        /\ e.type = "file"
        /\ _normalize_path(e.path) \notin DOMAIN written
        /\ \E j \in 1..Len(visit_order) : visit_order[j].raw = e.path}

\* the step took up a file entry whose download failed
FileFailure ==
    /\ InLoop
    /\ CurrentItem.type = "file"
    /\ <<"file_failed", CurrentItem.name>> \in stdout' \ stdout

\* C24: a file entry whose download fails raises nothing and the loop goes on
\* with the next entry; when every listing request was answered, at the end
\* of the walk every entry of a listing with a failed file was taken up and
\* the directory of that listing has its record.
C24_FileFailureConfined ==
    [][/\ FileFailure =>
            /\ stack' = SetTop([Top EXCEPT !.i = @ + 1])
            /\ crawl_pc' = "fetch"
            /\ UNCHANGED <<failures, attempt, sleeps, retry_result>>
       /\ (/\ crawl_pc' = "done"
           /\ retry_result' = "returned"
           /\ \A k \in 1..Len(fetched') : fetched'[k][2])
          => \A d \in {r[1] : r \in Range(fetched')} :
                FailedFiles(d)' # {} =>
                    /\ \A e \in Range(Listing(d)) :
                          _normalize_path(e.path) \in processed_dirs'
                    /\ RecordKeyOf(d) \in DOMAIN records'
      ]_vars

\* the step is the failure of the last attempt to fetch the directory of the
\* current item
DirFetchExhausted ==
    /\ dist_pc = "dir_fetch"
    /\ dist_faults' = dist_faults + 1
    /\ dist_attempt >= dist_config.max_retries - 1

\* C25: in distributed_crawler's crawl_site, when the last attempt to fetch
\* the directory of an item fails, the failure is reported at that item and
\* the next item follows; the crawl is left by an exception only when the
\* request for the page itself is exhausted; and a page with a reported item
\* has the metadata of every item with a path written and is yielded.
C25_ItemFailureCaught ==
    [][/\ DirFetchExhausted =>
            /\ <<"dir_error", dist_page_num, dist_i>> \in dist_stdout'
            /\ dist_pc' = "items"
            /\ dist_i' = dist_i + 1
            /\ UNCHANGED <<dist_metadata, dist_saved, dist_yielded>>
       /\ dist_pc' = "raised" => dist_pc = "fetch"
       /\ \A ev \in dist_stdout' :
            (ev[1] = "dir_error"
                /\ (dist_pc' = "done" \/ dist_page_num' > ev[2])
                /\ <<"crawl_error">> \notin dist_stdout')
            => /\ dist_yielded' >= ev[2]
               /\ \A k \in 1..Len(dist_page) :
                    dist_page[k].path # <<>> =>
                        <<ServerDir(dist_page[k]), dist_page[k].name>>
                            \in dist_metadata'
      ]_vars

C25_Witness ==
    /\ dist_pc = "done"
    /\ dist_config.max_retries = 2
    /\ Len(dist_page) = 2
    /\ <<"dir_error", 1, 1>> \in dist_stdout
    /\ <<"retry", 1>> \in dist_stdout
    /\ dist_sleeps = 1
    /\ dist_faults = 2
    /\ dist_yielded = dist_config.max_pages
    /\ \E name \in {S_a_py} : <<ServerDir(dist_page[2]), name>> \in dist_saved

\* the places where frames and frames2 both hold a call
Shared(frames, frames2) ==
    1..(IF Len(frames) < Len(frames2) THEN Len(frames) ELSE Len(frames2))

\* C26: the entries of a listing are taken up in listing order, one place at
\* a time; a call moves on to its next entry only when no call it made is
\* active any more; and the subdirectories of every record on disk stand in
\* the order in which they were discovered.
C26_ListingOrder ==
    [][/\ Len(visit_order') > Len(visit_order) =>
            /\ InLoop
            /\ Last(visit_order').raw = CurrentItem.path
            /\ Front(visit_order') = visit_order
       /\ \A k \in Shared(stack, stack') :
            /\ stack'[k].items # stack[k].items => stack[k].pc = "get"
            /\ stack'[k].i # stack[k].i =>
                /\ k = Len(stack')
                /\ stack'[k].i = stack[k].i + 1
       /\ \A key \in DOMAIN records' :
            \A a, b \in 1..Len(records'[key].subdirectories) :
                a < b =>
                    \E m, n \in 1..Len(visit_order') :
                        /\ m < n
                        /\ visit_order'[m].path = records'[key].subdirectories[a]
                        /\ visit_order'[n].path = records'[key].subdirectories[b]
      ]_vars

C26_Witness ==
    /\ crawl_pc = "done"
    /\ site_config.url = <<>>
    /\ \E key \in DOMAIN records :
          /\ records[key].subdirectories = <<S_pkg, <<>>>>
          /\ records[key].writes = 1
    /\ \E m, n \in 1..Len(visit_order) :
          /\ m < n
          /\ visit_order[m].raw = S_pkg
          /\ visit_order[n].raw = S_src

\* C27: the _normalize_path of crawler_engine and the _normalize_path of
\* distributed_crawler return the same string for every string.
C27_SameNormalization ==
    (norm_pc = "returned" /\ dist_norm_out # None) => norm_out = dist_norm_out

\* the answers after which crawl_site_stats tries again
RetriedAnswers == {"429", "5xx", "timeout", "exception", "200_cloudflare"}

\* what C28 says of the task of site i, a plain HTTP site
HttpTaskBounded(i) ==
    /\ tasks[i].requests <= sites[i].max_retries + 1
    /\ (tasks[i].pc = "attempt" /\ tasks[i].attempt > 0) =>
            tasks[i].last \in RetriedAnswers
    /\ tasks[i].pc = "done" =>
        /\ tasks[i].result.status \in {"success", "error", "timeout"}
        /\ tasks[i].result.status = "success" <=> tasks[i].last = "200_count"
        /\ tasks[i].last \notin RetriedAnswers =>
                tasks[i].requests = tasks[i].attempt + 1

\* C28: for a plain HTTP site with max_retries = m, crawl_site_stats makes at
\* most m + 1 requests, tries again only after 429, 500, 502, 503, 504, a
\* timeout, an exception or a Cloudflare page, and always ends by returning
\* a SiteStats, never None and never an exception, with status success only
\* when a count was read from a 200 answer.
C28_StatsAlwaysReturned ==
    \A i \in 1..Len(tasks) : sites[i].type = "http" => HttpTaskBounded(i)

\* C29: once _signal_handler has set running to False no crawl is started;
\* run_forever goes on to a crawl only from the check after the wait; a crawl
\* that was started ends before the loop is left, and its failure does not
\* end the loop; and when run_forever has ended running is False.
C29_StopStartsNoCrawl ==
    [][/\ (sched_pc # "crawl" /\ sched_pc' = "crawl") =>
            /\ ~stop_requested
            /\ sched_pc = "check"
       /\ (sched_pc = "check" /\ sched_pc' # sched_pc /\ stop_requested) =>
            sched_pc' = "finally"
       /\ (sched_pc = "crawl" /\ sched_pc' # "crawl") =>
            /\ Len(crawls') = Len(crawls) + 1
            /\ sched_pc' = "while"
       /\ sched_pc' = "stopped" => ~running'
      ]_vars

\* C30: the history file never holds more than 100 records; its records are
\* those of the most recent calls in call order, the newest last; and every
\* save_stats call adds exactly one record, that of the call, before the
\* list is cut.
C30_HistoryBounded ==
    [][/\ Len(history') <= HistoryLimit
       /\ Len(history') = IF hist_initial + saves' > HistoryLimit
                          THEN HistoryLimit
                          ELSE hist_initial + saves'
       /\ \A k \in 1..Len(history') :
            history'[k].timestamp = saves' - Len(history') + k
       /\ saves' = saves + 1 =>
            /\ Last(history').timestamp = saves'
            /\ Last(history').stats = latest'[1]
            /\ \A k \in 1..(Len(history') - 1) :
                 history'[k] = history[k + 1 + Len(history) - Len(history')]
      ]_vars

C30_Witness ==
    /\ hist_initial = HistoryLimit - 1
    /\ saves = 3
    /\ Len(history) = HistoryLimit
    /\ history[1].timestamp = 3 - HistoryLimit + 1
    /\ history[HistoryLimit] = HistoryRecord(3, 42)
    /\ history[HistoryLimit - 1].timestamp = 2

=============================================================================
